---------------------------- MODULE Spec2Model ----------------------------
(***************************************************************************)
(* FlavorGraph recipe-suggestion engine (flavorgraph/engine.py).           *)
(*                                                                         *)
(* Ingredient names are modelled as sequences of character code points so  *)
(* that strip(), lower() and the string order used by sorted() are          *)
(* computed rather than assumed.  Scores are kept as integers scaled by    *)
(* ten (covered*10 - missing*15 - subs*2): for the ingredient counts       *)
(* reachable here (fewer than five substitutions) the scaled integers      *)
(* order and tie exactly as the Python floats do.                          *)
(***************************************************************************)
EXTENDS Integers, Sequences, FiniteSets, TLC

(***************************************************************************)
(* Bounds of the model.                                                    *)
(***************************************************************************)
MaxRecipes == 2
MaxPlanSize == 2

(***************************************************************************)
(* Strings.                                                                *)
(***************************************************************************)
Range(s) == {s[i] : i \in 1..Len(s)}

Max(a, b) == IF a >= b THEN a ELSE b

Min(a, b) == IF a <= b THEN a ELSE b

\* str.isspace for the ASCII range
IsSpace(c) == c \in {9, 10, 11, 12, 13, 32}

\* str.lower for the ASCII range
LowerChar(c) == IF c >= 65 /\ c <= 90 THEN c + 32 ELSE c

Lower(s) == [i \in 1..Len(s) |-> LowerChar(s[i])]

RECURSIVE LStrip(_)
LStrip(s) == IF s # <<>> /\ IsSpace(Head(s)) THEN LStrip(Tail(s)) ELSE s

RECURSIVE RStrip(_)
RStrip(s) ==
    IF s # <<>> /\ IsSpace(s[Len(s)]) THEN RStrip(SubSeq(s, 1, Len(s) - 1)) ELSE s

Strip(s) == RStrip(LStrip(s))

\* ingredient.strip().lower()
Normalize(s) == Lower(Strip(s))

\* Python's < on str: lexicographic by code point, a proper prefix is smaller
RECURSIVE StrLess(_, _)
StrLess(s, t) ==
    IF t = <<>> THEN FALSE
    ELSE IF s = <<>> THEN TRUE
    ELSE IF Head(s) # Head(t) THEN Head(s) < Head(t)
    ELSE StrLess(Tail(s), Tail(t))

\* sorted(S) for a set of strings
RECURSIVE Sorted(_)
Sorted(S) ==
    IF S = {} THEN <<>>
    ELSE LET m == CHOOSE x \in S : \A y \in S : x = y \/ StrLess(x, y)
         IN  <<m>> \o Sorted(S \ {m})

(***************************************************************************)
(* Raw data the catalog is drawn from.                                     *)
(***************************************************************************)
\* "a", "b", "c" and raw spellings that normalize to them: "A ", " C"
NameA == <<97>>
NameB == <<98>>
NameC == <<99>>
RawA == <<65, 32>>
RawC == <<32, 67>>

Names == {NameA, NameB, NameC}

IngredientLists ==
    { <<NameA>>, <<NameB>>, <<RawA, NameA>>, <<NameB, RawC>> }

IdPool == <<"R1", "R2", "R3", "R4", "R5", "R6">>

UnknownId == "R0"

Catalogs ==
    UNION { { [i \in 1..n |-> [id |-> IdPool[i], ingredients |-> f[i]]] :
                f \in [1..n -> IngredientLists] } : n \in 0..MaxRecipes }

EmptyDict == [k \in {} |-> <<>>]

SubstitutionTables ==
    { EmptyDict,
      [k \in {NameA} |-> <<NameB>>],
      [k \in {NameA} |-> <<NameB, NameC>>],
      [k \in {NameA} |-> <<NameC, NameB>>],
      [k \in {NameA, NameC} |-> IF k = NameA THEN <<NameC>> ELSE <<NameB>>] }

(***************************************************************************)
(* State.                                                                  *)
(***************************************************************************)
VARIABLES
    recipes,            \* self.recipes: the catalog, in dict insertion order
    substitutions,      \* self.substitutions: ingredient -> ordered alternatives
    pc,                 \* "idle", "search" (inside backtrack), "assemble", "done" (response ready)
    called,             \* the operation whose response the state holds
    req,                \* the SuggestionRequest being served
    available,          \* the normalized availability set of the current call
    top_candidates,     \* the stage-1 shortlist
    stack,              \* call stack of backtrack: frames [at, start_idx, i, used_ingredients]
    chosen,             \* the list `chosen` shared by all backtrack calls
    best_plan,
    best_plan_score,
    best_plan_details,
    suggestions,        \* the returned suggestion records, in order
    visited,            \* history: plan_ids of every backtrack call that reached line 94
    pruned,             \* history: the `continue` of line 120 was taken
    stage2_plan,        \* history: best_plan as left by backtrack(0, [], set())
    coverage,           \* response of _compute_missing_and_subs
    all_ingredients,    \* response of get_all_ingredients
    gaps                \* response of analyze_gaps

vars == <<recipes, substitutions, pc, called, req, available, top_candidates, stack,
          chosen, best_plan, best_plan_score, best_plan_details, suggestions,
          visited, pruned, stage2_plan, coverage, all_ingredients, gaps>>

(***************************************************************************)
(* Coverage Resolver: _compute_missing_and_subs.                           *)
(***************************************************************************)
\* dict.get(key, [])
SubsGet(key) == IF key \in DOMAIN substitutions THEN substitutions[key] ELSE <<>>

\* d[k] = v
DictPut(d, k, v) == [x \in (DOMAIN d) \cup {k} |-> IF x = k THEN v ELSE d[x]]

\* d.update(e)
DictUpdate(d, e) ==
    [x \in (DOMAIN d) \cup (DOMAIN e) |-> IF x \in DOMAIN e THEN e[x] ELSE d[x]]

\* the inner for loop with break: index of the first alternative that is
\* available, 0 when the loop runs to its else branch
FirstAvailable_Last(alts, avail) ==
    LET hits == {i \in 1..Len(alts) : alts[i] \in avail}
    IN  IF hits = {} THEN 0 ELSE CHOOSE i \in hits : \A j \in hits : j <= i

FirstAvailable(alts, avail) ==
    LET hits == {i \in 1..Len(alts) : alts[i] \in avail}
    IN  IF hits = {} THEN 0 ELSE CHOOSE i \in hits : \A j \in hits : i <= j

EmptyCoverage == [missing |-> {}, covered |-> {}, subs_used |-> EmptyDict]

\* one iteration of the loop over recipe["ingredients"]
ResolveIngredient_ElseAlways(acc, ing, avail, allow_subs) ==
    LET ing_key == Normalize(ing)
        alts == SubsGet(ing_key)
        hit == FirstAvailable(alts, avail)
    IN  IF ing_key \in avail
        THEN [acc EXCEPT !.covered = @ \cup {ing_key}]
        ELSE IF allow_subs /\ hit # 0
             THEN [acc EXCEPT !.covered = @ \cup {ing_key},
                              !.subs_used = DictPut(@, ing_key, alts[hit]),
                              !.missing = @ \cup {ing_key}]
             ELSE [acc EXCEPT !.missing = @ \cup {ing_key}]

ResolveIngredient(acc, ing, avail, allow_subs) ==
    LET ing_key == Normalize(ing)
        alts == SubsGet(ing_key)
        hit == FirstAvailable(alts, avail)
    IN  IF ing_key \in avail
        THEN [acc EXCEPT !.covered = @ \cup {ing_key}]
        ELSE IF allow_subs
             THEN IF hit # 0
                  THEN [acc EXCEPT !.covered = @ \cup {ing_key},
                                   !.subs_used = DictPut(@, ing_key, alts[hit])]
                  ELSE [acc EXCEPT !.missing = @ \cup {ing_key}]
             ELSE [acc EXCEPT !.missing = @ \cup {ing_key}]

RECURSIVE ResolveFrom(_, _, _, _)
ResolveFrom(acc, ingredients, avail, allow_subs) ==
    IF ingredients = <<>> THEN acc
    ELSE ResolveFrom(ResolveIngredient(acc, Head(ingredients), avail, allow_subs),
                     Tail(ingredients), avail, allow_subs)

ComputeMissingAndSubs(recipe, avail, allow_subs) ==
    ResolveFrom(EmptyCoverage, recipe.ingredients, avail, allow_subs)

(***************************************************************************)
(* Scorer (scores scaled by ten).                                          *)
(***************************************************************************)
ScoreRecipe(covered, missing, subs_used) ==
    10 * Cardinality(covered) - (10 * Cardinality(missing) + 2 * Cardinality(DOMAIN subs_used))

ScorePlan(covered, missing, subs_used) ==
    10 * Cardinality(covered) - 15 * Cardinality(missing) - 2 * Cardinality(DOMAIN subs_used)

(***************************************************************************)
(* Plan Search, stage 1: filtering, pre-ranking, shortlist.                *)
(***************************************************************************)
ShortlistFloor == 25

\* seq[:n] for n >= 0
Prefix(seq, n) == SubSeq(seq, 1, Min(Len(seq), n))

\* self.recipes[rid]
RecipeById(rid) == recipes[CHOOSE k \in 1..Len(recipes) : recipes[k].id = rid]

\* the tuple appended to greedy_scores for one recipe
GreedyEntry(recipe, avail, allow_subs) ==
    LET cov == ComputeMissingAndSubs(recipe, avail, allow_subs)
    IN  [rid |-> recipe.id,
         score |-> ScoreRecipe(cov.covered, cov.missing, cov.subs_used),
         details |-> [missing |-> Sorted(cov.missing),
                      covered |-> Sorted(cov.covered),
                      subs |-> cov.subs_used]]

\* the loop over self.recipes.items() that fills greedy_scores
RECURSIVE GreedyScores(_, _, _, _)
GreedyScores(catalog, avail, allow_subs, max_missing) ==
    IF catalog = <<>> THEN <<>>
    ELSE LET e == GreedyEntry(Head(catalog), avail, allow_subs)
             rest == GreedyScores(Tail(catalog), avail, allow_subs, max_missing)
         IN  IF Len(e.details.missing) <= max_missing THEN <<e>> \o rest ELSE rest

\* key(x) < key(y) for the sort key of line 79
SortKeyLess(x, y, prioritize) ==
    LET nx == Len(RecipeById(x.rid).ingredients)
        ny == Len(RecipeById(y.rid).ingredients)
    IN  IF prioritize
        THEN nx < ny \/ (nx = ny /\ -x.score < -y.score)
        ELSE -x.score < -y.score

\* list.sort is stable: x goes before the first element with a greater key
InsertByKey(sorted, x, prioritize) ==
    LET later == {j \in 1..Len(sorted) : SortKeyLess(x, sorted[j], prioritize)}
        pos == IF later = {} THEN Len(sorted) + 1
               ELSE CHOOSE j \in later : \A k \in later : j <= k
    IN  SubSeq(sorted, 1, pos - 1) \o <<x>> \o SubSeq(sorted, pos, Len(sorted))

RECURSIVE SortFrom(_, _, _)
SortFrom(sorted, rest, prioritize) ==
    IF rest = <<>> THEN sorted
    ELSE SortFrom(InsertByKey(sorted, Head(rest), prioritize), Tail(rest), prioritize)

StableSort(seq, prioritize) == SortFrom(<<>>, seq, prioritize)

TopCandidates(r, avail) ==
    Prefix(StableSort(GreedyScores(recipes, avail, r.allow_substitutions, r.max_missing),
                      r.prioritize_min_missing),
           Max(ShortlistFloor, r.max_suggestions * 3))

(***************************************************************************)
(* Plan Search, stage 2: one call of backtrack.                            *)
(***************************************************************************)
NegInf == [neg_inf |-> TRUE, value |-> 0]

Finite(n) == [neg_inf |-> FALSE, value |-> n]

\* score > best_plan_score
ScoreGreater_OrEqual(score, best_score) == best_score.neg_inf \/ score >= best_score.value

ScoreGreater(score, best_score) == best_score.neg_inf \/ score > best_score.value

PlanIds(plan) == [k \in 1..Len(plan) |-> plan[k].rid]

PlanMissing(plan) == UNION {Range(plan[k].details.missing) : k \in 1..Len(plan)}

PlanCovered(plan) == UNION {Range(plan[k].details.covered) : k \in 1..Len(plan)}

RECURSIVE PlanSubs(_)
PlanSubs(plan) ==
    IF plan = <<>> THEN EmptyDict
    ELSE DictUpdate(PlanSubs(SubSeq(plan, 1, Len(plan) - 1)), plan[Len(plan)].details.subs)

PlanScore(plan) == ScorePlan(PlanCovered(plan), PlanMissing(plan), PlanSubs(plan))

\* {rid: det for rid, _, det in plan}
DetailsOf(plan) ==
    [rid \in Range(PlanIds(plan)) |->
        plan[CHOOSE k \in 1..Len(plan) :
                plan[k].rid = rid /\ \A j \in k + 1..Len(plan) : plan[j].rid # rid].details]

\* lines 94-109: evaluate the current plan against the recorded best
Evaluate_SkipEmpty(plan, best, max_missing) ==
    IF plan # <<>> /\ Cardinality(PlanMissing(plan)) <= max_missing
       /\ ScoreGreater(PlanScore(plan), best.score)
    THEN [plan |-> PlanIds(plan), score |-> Finite(PlanScore(plan)),
          details |-> DetailsOf(plan)]
    ELSE best

Evaluate(plan, best, max_missing) ==
    IF Cardinality(PlanMissing(plan)) <= max_missing
       /\ ScoreGreater(PlanScore(plan), best.score)
    THEN [plan |-> PlanIds(plan), score |-> Finite(PlanScore(plan)),
          details |-> DetailsOf(plan)]
    ELSE best

\* line 118
NewMissing(details, used_ingredients) == Range(details.missing) \ used_ingredients

\* the third argument of the recursive call, line 122
UsedAfter_AllIngredients(used_ingredients, details) ==
    used_ingredients \cup Range(details.covered) \cup Range(details.missing)

UsedAfter(used_ingredients, details) == used_ingredients \cup Range(details.covered)

(***************************************************************************)
(* Gap Analyzer and catalog accessors.                                     *)
(***************************************************************************)
\* the body of the loop over recipe_ids for a recipe that exists
GapEntry_NoSubs(r, available_set) ==
    LET cov == ComputeMissingAndSubs(r, available_set, FALSE)
    IN  [missing |-> Sorted(cov.missing),
         covered |-> Sorted(cov.covered),
         substitution_candidates |-> [m \in cov.missing |-> SubsGet(m)]]

GapEntry(r, available_set) ==
    LET cov == ComputeMissingAndSubs(r, available_set, TRUE)
    IN  [missing |-> Sorted(cov.missing),
         covered |-> Sorted(cov.covered),
         substitution_candidates |-> [m \in cov.missing |-> SubsGet(m)]]

CatalogIds == {recipes[k].id : k \in 1..Len(recipes)}

\* the loop over recipe_ids: self.recipes.get(rid), skipped when absent
RECURSIVE GapsFor(_, _)
GapsFor(recipe_ids, available_set) ==
    IF recipe_ids = <<>> THEN EmptyDict
    ELSE LET before == GapsFor(SubSeq(recipe_ids, 1, Len(recipe_ids) - 1), available_set)
             rid == recipe_ids[Len(recipe_ids)]
         IN  IF rid \notin CatalogIds THEN before
             ELSE DictPut(before, rid, GapEntry(RecipeById(rid), available_set))

\* the set built by get_all_ingredients, before sorted()
IngredientSet ==
    UNION {Range(recipes[k].ingredients) : k \in 1..Len(recipes)}

(***************************************************************************)
(* Inputs.                                                                 *)
(***************************************************************************)
\* raw available_ingredients lists, as sets: " A", "b", "C "
RawAvailable == SUBSET {<<32, 65>>, NameB, <<67, 32>>}

Requests ==
    [available_ingredients : RawAvailable,
     max_missing : {-1, 0, 1},
     allow_substitutions : BOOLEAN,
     max_suggestions : {1, 2},
     plan_size : 1..MaxPlanSize,
     prioritize_min_missing : BOOLEAN]

RecipeIdLists ==
    UNION {[1..n -> CatalogIds \cup {UnknownId}] : n \in 0..MaxRecipes}

(***************************************************************************)
(* Initial state: the engine after construction.                           *)
(***************************************************************************)
NoRequest ==
    [available_ingredients |-> {}, max_missing |-> 0, allow_substitutions |-> FALSE,
     max_suggestions |-> 1, plan_size |-> 1, prioritize_min_missing |-> FALSE]

NoCoverage ==
    [recipe |-> [id |-> "", ingredients |-> <<>>], available |-> {},
     allow_subs |-> FALSE, result |-> EmptyCoverage]

NoGaps == [recipe_ids |-> <<>>, available |-> {}, gaps |-> EmptyDict]

SuggestIdle ==
    /\ req' = NoRequest
    /\ top_candidates' = <<>>
    /\ stack' = <<>>
    /\ chosen' = <<>>
    /\ best_plan' = <<>>
    /\ best_plan_score' = NegInf
    /\ best_plan_details' = EmptyDict
    /\ suggestions' = <<>>
    /\ visited' = <<>>
    /\ pruned' = FALSE
    /\ stage2_plan' = <<>>

Init ==
    /\ recipes \in Catalogs
    /\ substitutions \in SubstitutionTables
    /\ pc = "idle"
    /\ called = "none"
    /\ req = NoRequest
    /\ available = {}
    /\ top_candidates = <<>>
    /\ stack = <<>>
    /\ chosen = <<>>
    /\ best_plan = <<>>
    /\ best_plan_score = NegInf
    /\ best_plan_details = EmptyDict
    /\ suggestions = <<>>
    /\ visited = <<>>
    /\ pruned = FALSE
    /\ stage2_plan = <<>>
    /\ coverage = NoCoverage
    /\ all_ingredients = <<>>
    /\ gaps = NoGaps

(***************************************************************************)
(* Operations.                                                             *)
(***************************************************************************)
Ready == pc = "idle"

\* suggest_recipes up to and including the call backtrack(0, [], set())
SuggestRecipesCall(r) ==
    /\ Ready
    /\ pc' = "search"
    /\ called' = "suggest"
    /\ req' = r
    /\ available' = {Normalize(i) : i \in r.available_ingredients}
    /\ top_candidates' = TopCandidates(r, available')
    /\ best_plan' = <<>>
    /\ best_plan_score' = NegInf
    /\ best_plan_details' = EmptyDict
    /\ chosen' = <<>>
    /\ stack' = <<[at |-> "enter", start_idx |-> 0, i |-> 0, used_ingredients |-> {}]>>
    /\ suggestions' = <<>>
    /\ visited' = <<>>
    /\ pruned' = FALSE
    /\ stage2_plan' = <<>>
    /\ coverage' = NoCoverage
    /\ all_ingredients' = <<>>
    /\ gaps' = NoGaps
    /\ UNCHANGED <<recipes, substitutions>>

Top == stack[Len(stack)]

\* return from the running backtrack call: the caller resumes at chosen.pop(),
\* the outermost call returns into suggest_recipes
Return(plan_after) ==
    /\ stack' = SubSeq(stack, 1, Len(stack) - 1)
    /\ IF Len(stack) = 1
       THEN /\ pc' = "assemble"
            /\ chosen' = chosen
            /\ stage2_plan' = plan_after
       ELSE /\ pc' = "search"
            /\ chosen' = SubSeq(chosen, 1, Len(chosen) - 1)
            /\ stage2_plan' = stage2_plan

\* lines 88-113 of a backtrack call
BacktrackEnter ==
    /\ pc = "search"
    /\ Top.at = "enter"
    /\ IF Len(chosen) > req.plan_size
       THEN /\ Return(best_plan)
            /\ UNCHANGED <<best_plan, best_plan_score, best_plan_details, visited>>
       ELSE LET best == Evaluate(chosen,
                                 [plan |-> best_plan, score |-> best_plan_score,
                                  details |-> best_plan_details],
                                 req.max_missing)
            IN  /\ best_plan' = best.plan
                /\ best_plan_score' = best.score
                /\ best_plan_details' = best.details
                /\ visited' = Append(visited, PlanIds(chosen))
                /\ IF Len(chosen) = req.plan_size
                   THEN Return(best.plan)
                   ELSE /\ stack' = [stack EXCEPT ![Len(stack)] =
                                        [Top EXCEPT !.at = "loop", !.i = Top.start_idx]]
                        /\ UNCHANGED <<pc, chosen, stage2_plan>>
    /\ UNCHANGED <<recipes, substitutions, called, req, available, top_candidates,
                   suggestions, pruned, coverage, all_ingredients, gaps>>

\* one iteration of the loop of lines 115-123, up to the recursive call, or
\* the end of the loop
BacktrackLoop ==
    /\ pc = "search"
    /\ Top.at = "loop"
    /\ IF Top.i >= Len(top_candidates)
       THEN /\ Return(best_plan)
            /\ UNCHANGED pruned
       ELSE LET cand == top_candidates[Top.i + 1]
                new_missing == NewMissing(cand.details, Top.used_ingredients)
            IN  IF Cardinality(new_missing) > req.max_missing
                THEN /\ stack' = [stack EXCEPT ![Len(stack)].i = @ + 1]
                     /\ pruned' = TRUE
                     /\ UNCHANGED <<pc, chosen, stage2_plan>>
                ELSE /\ chosen' = Append(chosen, cand)
                     /\ stack' = Append([stack EXCEPT ![Len(stack)].i = @ + 1],
                                        [at |-> "enter", start_idx |-> Top.i + 1,
                                         i |-> Top.i + 1,
                                         used_ingredients |->
                                             UsedAfter(Top.used_ingredients, cand.details)])
                     /\ UNCHANGED <<pc, pruned, stage2_plan>>
    /\ UNCHANGED <<recipes, substitutions, called, req, available, top_candidates,
                   best_plan, best_plan_score, best_plan_details, suggestions, visited,
                   coverage, all_ingredients, gaps>>

\* best_plan_details.get(rid, {...}) and the suggestion record of lines 134-145
Suggestion(rid, details) ==
    LET det == IF rid \in DOMAIN details THEN details[rid]
               ELSE [missing |-> <<>>, covered |-> <<>>, subs |-> EmptyDict]
    IN  [id |-> rid, ingredients |-> RecipeById(rid).ingredients,
         missing |-> det.missing, covered |-> det.covered, substitutions |-> det.subs]

\* lines 127-151: fallback and response assembly
SuggestAssemble ==
    /\ pc = "assemble"
    /\ pc' = "done"
    /\ LET fallback == Prefix(top_candidates, req.max_suggestions)
       IN  IF best_plan = <<>>
           THEN /\ best_plan' = PlanIds(fallback)
                /\ best_plan_details' = DetailsOf(fallback)
           ELSE UNCHANGED <<best_plan, best_plan_details>>
    /\ suggestions' =
          LET ids == Prefix(best_plan', req.max_suggestions)
          IN  [k \in 1..Len(ids) |-> Suggestion(ids[k], best_plan_details')]
    /\ UNCHANGED <<recipes, substitutions, called, req, available, top_candidates, stack,
                   chosen, best_plan_score, visited, pruned, stage2_plan, coverage,
                   all_ingredients, gaps>>

\* _compute_missing_and_subs(recipe, available, allow_subs)
ResolveCall(k, avail, allow_subs) ==
    /\ Ready
    /\ pc' = "done"
    /\ called' = "resolve"
    /\ coverage' = [recipe |-> recipes[k], available |-> avail, allow_subs |-> allow_subs,
                    result |-> ComputeMissingAndSubs(recipes[k], avail, allow_subs)]
    /\ available' = avail
    /\ SuggestIdle
    /\ all_ingredients' = <<>>
    /\ gaps' = NoGaps
    /\ UNCHANGED <<recipes, substitutions>>

GetAllIngredients ==
    /\ Ready
    /\ pc' = "done"
    /\ called' = "ingredients"
    /\ all_ingredients' = Sorted(IngredientSet)
    /\ available' = {}
    /\ SuggestIdle
    /\ coverage' = NoCoverage
    /\ gaps' = NoGaps
    /\ UNCHANGED <<recipes, substitutions>>

AnalyzeGapsCall(recipe_ids, avail) ==
    /\ Ready
    /\ pc' = "done"
    /\ called' = "gaps"
    /\ available' = {Normalize(i) : i \in avail}
    /\ gaps' = [recipe_ids |-> recipe_ids, available |-> available',
                gaps |-> GapsFor(recipe_ids, available')]
    /\ SuggestIdle
    /\ coverage' = NoCoverage
    /\ all_ingredients' = <<>>
    /\ UNCHANGED <<recipes, substitutions>>

\* the response is handed to the caller; the engine keeps only its catalog
Respond ==
    /\ pc = "done"
    /\ pc' = "idle"
    /\ called' = "none"
    /\ available' = {}
    /\ SuggestIdle
    /\ coverage' = NoCoverage
    /\ all_ingredients' = <<>>
    /\ gaps' = NoGaps
    /\ UNCHANGED <<recipes, substitutions>>

SuggestRecipes == Ready /\ \E r \in Requests : SuggestRecipesCall(r)

Resolve ==
    Ready /\ \E k \in 1..Len(recipes), avail \in SUBSET Names, allow_subs \in BOOLEAN :
                ResolveCall(k, avail, allow_subs)

AnalyzeGaps ==
    Ready /\ \E recipe_ids \in RecipeIdLists, avail \in RawAvailable :
                AnalyzeGapsCall(recipe_ids, avail)

Next ==
    \/ SuggestRecipes
    \/ BacktrackEnter
    \/ BacktrackLoop
    \/ SuggestAssemble
    \/ Resolve
    \/ GetAllIngredients
    \/ AnalyzeGaps
    \/ Respond

Spec == Init /\ [][Next]_vars

(***************************************************************************)
(* Vocabulary of the properties.                                           *)
(***************************************************************************)
SuggestDone == pc = "done" /\ called = "suggest"

\* backtrack(0, [], set()) has returned and the fallback has not run yet
SearchEnded == pc = "assemble"

SuggestionIds == [k \in 1..Len(suggestions) |-> suggestions[k].id]

\* subsets of the shortlist, as sets of shortlist positions
Shortlist == 1..Len(top_candidates)

SubsetsUpToPlanSize == {S \in SUBSET Shortlist : Cardinality(S) <= req.plan_size}

RECURSIVE Ascending(_)
Ascending(S) ==
    IF S = {} THEN <<>>
    ELSE LET m == CHOOSE x \in S : \A y \in S : x <= y
         IN  <<m>> \o Ascending(S \ {m})

IdsOfSet(S) == LET a == Ascending(S) IN [k \in 1..Len(a) |-> top_candidates[a[k]].rid]

MissingOfSet(S) == UNION {Range(top_candidates[k].details.missing) : k \in S}

CoveredOfSet(S) == UNION {Range(top_candidates[k].details.covered) : k \in S}

SubstitutedOfSet(S) == UNION {DOMAIN top_candidates[k].details.subs : k \in S}

\* covered - 1.5*missing - 0.2*substitutions over the unioned sets, times ten
ScoreOfSet(S) ==
    10 * Cardinality(CoveredOfSet(S)) - 15 * Cardinality(MissingOfSet(S))
        - 2 * Cardinality(SubstitutedOfSet(S))

WithinBudget(S) == Cardinality(MissingOfSet(S)) <= req.max_missing

\* the non-empty subsets of size <= plan_size within the missing budget
Feasible == {S \in SubsetsUpToPlanSize : S # {} /\ WithinBudget(S)}

\* the shortlist positions of a plan given by its recipe ids
PositionsOf(ids) == {k \in Shortlist : top_candidates[k].rid \in Range(ids)}

PositionSeq(ids) ==
    [k \in 1..Len(ids) |-> CHOOSE p \in Shortlist : top_candidates[p].rid = ids[k]]

\* depth-first preorder on position sequences: a proper prefix comes first,
\* otherwise the lower position at the first difference
RECURSIVE PreorderBefore(_, _)
PreorderBefore(s, t) ==
    IF t = <<>> THEN FALSE
    ELSE IF s = <<>> THEN TRUE
    ELSE IF Head(s) # Head(t) THEN Head(s) < Head(t)
    ELSE PreorderBefore(Tail(s), Tail(t))

\* the normalized ingredient set of a recipe
NormalizedIngredients(recipe) == {Normalize(x) : x \in Range(recipe.ingredients)}

\* the single-recipe score of a shortlisted recipe
ScoreOfId(rid) ==
    top_candidates[CHOOSE p \in Shortlist : top_candidates[p].rid = rid].score

ResolveDone == pc = "done" /\ called = "resolve"

\* the substitution table's list for x, empty when it has no entry
Alternatives(x) == IF x \in DOMAIN substitutions THEN substitutions[x] ELSE <<>>

GapsDone == pc = "done" /\ called = "gaps"

MissingWithSubs(recipe, avail) ==
    {x \in NormalizedIngredients(recipe) :
        x \notin avail /\ \A i \in 1..Len(Alternatives(x)) : Alternatives(x)[i] \notin avail}

\* order on recorded scores, -inf below every number
StrictlyGreater(new, old) == ~new.neg_inf /\ (old.neg_inf \/ new.value > old.value)

NotLess(new, old) == old.neg_inf \/ (~new.neg_inf /\ new.value >= old.value)

C2_PlanSizeOneIsTopK ==
    (SuggestDone /\ req.plan_size = 1) =>
        /\ Len(suggestions) = Min(Len(top_candidates), req.max_suggestions)
        /\ \A k \in 1..Len(suggestions) : \E p \in Shortlist :
               top_candidates[p].rid = suggestions[k].id
        /\ \A j, k \in 1..Len(suggestions) :
               j < k => /\ suggestions[j].id # suggestions[k].id
                        /\ ScoreOfId(suggestions[j].id) >= ScoreOfId(suggestions[k].id)
        /\ \A p \in Shortlist :
               top_candidates[p].rid \notin Range(SuggestionIds) =>
                   \A k \in 1..Len(suggestions) :
                       ScoreOfId(suggestions[k].id) >= top_candidates[p].score

(***************************************************************************)
(* C3: when the suggestions are assembled from a non-empty best_plan, the  *)
(* number of distinct missing ingredients over its recipes is at most      *)
(* max_missing.                                                            *)
(***************************************************************************)
C3_BestPlanWithinBudget ==
    (SuggestDone /\ best_plan # <<>>) =>
        Cardinality(UNION {Range(best_plan_details[best_plan[k]].missing) :
                              k \in 1..Len(best_plan)}) <= req.max_missing

(***************************************************************************)
(* C4: the resolver's missing and covered sets are disjoint, their union   *)
(* is the recipe's set of distinct normalized ingredients, and every key   *)
(* of substitutions_used is covered.                                       *)
(***************************************************************************)
C4_CoveragePartition ==
    ResolveDone =>
        LET r == coverage.result
        IN  /\ r.missing \cap r.covered = {}
            /\ r.missing \cup r.covered = NormalizedIngredients(coverage.recipe)
            /\ DOMAIN r.subs_used \subseteq r.covered

\* a recipe that lists one normalized ingredient twice, covered by a substitution
C4_Witness ==
    /\ ResolveDone
    /\ Len(coverage.recipe.ingredients)
          > Cardinality(NormalizedIngredients(coverage.recipe))
    /\ DOMAIN coverage.result.subs_used # {}

(***************************************************************************)
(* C5: get_all_ingredients returns the sorted, duplicate-free sequence of  *)
(* the normalized names of all ingredients of the catalog.                 *)
(***************************************************************************)
C5_IngredientsNormalized ==
    (pc = "done" /\ called = "ingredients") =>
        all_ingredients =
            Sorted(UNION {NormalizedIngredients(recipes[k]) : k \in 1..Len(recipes)})

(***************************************************************************)
(* C6: x has an entry in substitutions_used iff x is not available,        *)
(* substitutions are allowed and some alternative listed for x is          *)
(* available; the entry is the first available alternative in list order.  *)
(***************************************************************************)
C6_FirstMatchSubstitution ==
    ResolveDone =>
        LET subs == coverage.result.subs_used
            avail == coverage.available
        IN  /\ DOMAIN subs \subseteq NormalizedIngredients(coverage.recipe)
            /\ \A x \in NormalizedIngredients(coverage.recipe) :
                  LET alts == Alternatives(x)
                  IN  /\ x \in DOMAIN subs <=>
                            /\ x \notin avail
                            /\ coverage.allow_subs
                            /\ \E i \in 1..Len(alts) : alts[i] \in avail
                      /\ x \in DOMAIN subs =>
                            \E i \in 1..Len(alts) :
                                /\ subs[x] = alts[i]
                                /\ alts[i] \in avail
                                /\ \A j \in 1..(i - 1) : alts[j] \notin avail

\* two alternatives of an unavailable ingredient are both available
C6_Witness ==
    /\ ResolveDone
    /\ \E x \in DOMAIN coverage.result.subs_used :
          /\ Len(Alternatives(x)) >= 2
          /\ Range(Alternatives(x)) \subseteq coverage.available
          /\ coverage.result.subs_used[x] = Alternatives(x)[1]

(***************************************************************************)
(* C7: the keys of gaps are exactly the requested ids that are in the      *)
(* catalog, and substitution_candidates maps every ingredient that is      *)
(* missing with substitutions allowed to the table's full list, or to the  *)
(* empty list when the table has no entry.                                 *)
(***************************************************************************)
C7_GapsSkipUnknown ==
    GapsDone =>
        /\ DOMAIN gaps.gaps = Range(gaps.recipe_ids) \cap CatalogIds
        /\ \A rid \in DOMAIN gaps.gaps :
              LET cands == gaps.gaps[rid].substitution_candidates
              IN  /\ DOMAIN cands = MissingWithSubs(RecipeById(rid), gaps.available)
                  /\ Range(gaps.gaps[rid].missing) = DOMAIN cands
                  /\ \A m \in DOMAIN cands :
                        cands[m] = IF m \in DOMAIN substitutions
                                   THEN substitutions[m] ELSE <<>>

\* an unknown id is requested next to a recipe with a missing ingredient that
\* has table alternatives and one that has none
C7_Witness ==
    /\ GapsDone
    /\ UnknownId \in Range(gaps.recipe_ids)
    /\ \E rid \in DOMAIN gaps.gaps :
          \E m, n \in DOMAIN gaps.gaps[rid].substitution_candidates :
              /\ gaps.gaps[rid].substitution_candidates[m] # <<>>
              /\ gaps.gaps[rid].substitution_candidates[n] = <<>>

\* C8, one step of the search: the recorded score never decreases, and the
\* recorded plan changes only to the plan under evaluation, whose score is
\* strictly greater than the one recorded before
C8_SearchStep ==
    pc = "search" =>
        /\ NotLess(best_plan_score', best_plan_score)
        /\ (best_plan' # best_plan \/ best_plan_score' # best_plan_score) =>
              /\ StrictlyGreater(best_plan_score', best_plan_score)
              /\ best_plan' = PlanIds(chosen)
              /\ best_plan_score'.value = ScoreOfSet(PositionsOf(best_plan'))

\* C8, end of the search: the plans were evaluated in depth-first preorder
\* and the first of the top-scoring plans within the budget is the one kept
C8_FirstFoundKept ==
    SearchEnded =>
        LET within == {k \in 1..Len(visited) : WithinBudget(PositionsOf(visited[k]))}
            top == {k \in within :
                       \A j \in within : ScoreOfSet(PositionsOf(visited[j]))
                                            <= ScoreOfSet(PositionsOf(visited[k]))}
        IN  /\ \A j, k \in 1..Len(visited) :
                  j < k => PreorderBefore(PositionSeq(visited[j]), PositionSeq(visited[k]))
            /\ within # {} =>
                  stage2_plan = visited[CHOOSE k \in top : \A j \in top : k <= j]

(***************************************************************************)
(* C8: during the search the recorded best plan is replaced only by a plan *)
(* of strictly greater plan score and the recorded best score never        *)
(* decreases; the plans are evaluated in depth-first preorder over the     *)
(* shortlist, and the plan kept at the end is the first one in that order  *)
(* that attains the maximal score within the missing budget.               *)
(***************************************************************************)
C8_StrictReplacement == [][C8_SearchStep]_vars /\ []C8_FirstFoundKept

\* two different plans within the budget tie for the maximal score and the
\* earlier one, a non-empty plan, is kept
C8_Witness ==
    /\ SearchEnded
    /\ stage2_plan # <<>>
    /\ \E j, k \in 1..Len(visited) :
          /\ j < k
          /\ stage2_plan = visited[j]
          /\ WithinBudget(PositionsOf(visited[k]))
          /\ ScoreOfSet(PositionsOf(visited[k])) = ScoreOfSet(PositionsOf(visited[j]))

(***************************************************************************)
(* C9: for max_missing >= 0 the empty subset is evaluated first and        *)
(* recorded with score 0, so a non-empty best plan of stage 2 has a score  *)
(* strictly greater than 0; when every non-empty subset within the budget  *)
(* scores <= 0, stage 2 ends with an empty best plan and the response is   *)
(* the fallback list, the first max_suggestions shortlist entries.         *)
(***************************************************************************)
C9_EmptyPlanIsBaseline ==
    (called = "suggest" /\ req.max_missing >= 0) =>
        /\ (pc = "search" /\ Len(visited) = 1) =>
              /\ visited[1] = <<>>
              /\ best_plan = <<>>
              /\ best_plan_score = Finite(0)
        /\ SearchEnded =>
              /\ visited[1] = <<>>
              /\ stage2_plan # <<>> =>
                    /\ ScoreOfSet(PositionsOf(stage2_plan)) > 0
                    /\ best_plan_score = Finite(ScoreOfSet(PositionsOf(stage2_plan)))
              /\ (\A S \in Feasible : ScoreOfSet(S) <= 0) => stage2_plan = <<>>
        /\ (pc = "done" /\ \A S \in Feasible : ScoreOfSet(S) <= 0) =>
              /\ stage2_plan = <<>>
              /\ SuggestionIds = PlanIds(Prefix(top_candidates, req.max_suggestions))

\* the fallback list is returned and is longer than plan_size
C9_Witness ==
    /\ SuggestDone
    /\ req.max_missing >= 0
    /\ Feasible # {}
    /\ stage2_plan = <<>>
    /\ Len(suggestions) > req.plan_size

(***************************************************************************)
(* C10: in every call of backtrack used_ingredients is the union of the    *)
(* covered sets of the chosen recipes and is disjoint from the missing set *)
(* of every shortlist candidate, so new_missing is the candidate's own     *)
(* missing set, of size <= max_missing; the pruning branch is never taken  *)
(* and the search visits every subset of the shortlist of size             *)
(* <= plan_size.                                                           *)
(***************************************************************************)
C10_PruningNeverFires ==
    /\ pc = "search" =>
          \A d \in 1..Len(stack) :
              /\ d - 1 <= Len(chosen)
              /\ stack[d].used_ingredients = PlanCovered(SubSeq(chosen, 1, d - 1))
              /\ \A p \in Shortlist :
                    LET det == top_candidates[p].details
                    IN  /\ Range(det.missing) \cap stack[d].used_ingredients = {}
                        /\ NewMissing(det, stack[d].used_ingredients) = Range(det.missing)
                        /\ Len(det.missing) <= req.max_missing
    /\ ~pruned
    /\ SearchEnded =>
          /\ Range(visited) = {IdsOfSet(S) : S \in SubsetsUpToPlanSize}
          /\ Len(visited) = Cardinality(SubsetsUpToPlanSize)

\* a nested call whose used_ingredients is non-empty is about to try a
\* candidate that has a missing ingredient
C10_Witness ==
    /\ pc = "search"
    /\ Len(stack) >= 2
    /\ stack[Len(stack)].at = "loop"
    /\ stack[Len(stack)].used_ingredients # {}
    /\ stack[Len(stack)].i < Len(top_candidates)
    /\ top_candidates[stack[Len(stack)].i + 1].details.missing # <<>>

=============================================================================
